---------------------------- MODULE Spec2Model ----------------------------
(***************************************************************************)
(* A model of the mdbook inline-highlighting preprocessor                   *)
(* (src/src/preprocessor.rs, src/src/config.rs).                             *)
(*                                                                          *)
(* Strings are sequences of one-character strings, so that slicing,        *)
(* scanning and concatenation are computed character by character as the   *)
(* Rust code computes them.  An Option<T> is a sequence of length 0 (None) *)
(* or 1 (Some).                                                             *)
(*                                                                          *)
(* Two specifications share the variables:                                 *)
(*   Spec     one call of parse_inline_code on a span text and a default   *)
(*            language drawn from bounded sets;                             *)
(*   RunSpec  InlineHighlighterPreprocessor::run over a book, one step per *)
(*            parser event and per serialization.                           *)
(***************************************************************************)
EXTENDS Naturals, Sequences, FiniteSets

VARIABLES
    default_language,   \* Configuration.default_language: Option<String>
    code,               \* the span text handed to parse_inline_code (Spec)
    outcome,            \* Option<(String, bool)>: what parse_inline_code returned (Spec)
    book,               \* the Book being rewritten in place: its items in for_each_mut order
    book_in,            \* the Book as it was handed to run
    item,               \* index of the item for_each_mut is visiting (0 before the walk)
    pc,                 \* position in the code
    parsed,             \* the events the parser has yielded for the current chapter
    events,             \* the `events` vector of the current chapter
    log,                \* the diagnostics written with log::error!
    cmark_result,       \* per item visited: what cmark returned for it ("Ok", "Err")
    returned            \* Option<Result<Book>>: what run returned

vars == <<default_language, code, outcome, book, book_in, item, pc, parsed,
          events, log, cmark_result, returned>>

---------------------------------------------------------------------------
(* Bounds *)

\* Longest free tail of a span text (appended to one of SpanPrefixes).
MaxLen == 4
\* Most events the parser yields for one chapter.
MaxEvents == 2
\* Most items in a book.
MaxItems == 2

---------------------------------------------------------------------------
(* Constants of the program *)

ESCAPE_CHAR == "\\"
LANG_SPEC_START == "["
LANG_SPEC_END == "]"

\* The literal "none" of `lang == "none"`.
NoneLiteral == <<"n", "o", "n", "e">>

None == <<>>
Some(x) == <<x>>

---------------------------------------------------------------------------
(* inline_with_highlighting: format!("<code class=\"hljs language-{}\">{}</code>") *)

inline_with_highlighting_swapped(code_, language) ==
    <<"<", "c", "o", "d", "e", " ", "c", "l", "a", "s", "s", "=", "\"",
      "h", "l", "j", "s", " ", "l", "a", "n", "g", "u", "a", "g", "e", "-">>
    \o code_ \o <<"\"", ">">> \o language \o <<"<", "/", "c", "o", "d", "e", ">">>

inline_with_highlighting(code_, language) ==
    <<"<", "c", "o", "d", "e", " ", "c", "l", "a", "s", "s", "=", "\"",
      "h", "l", "j", "s", " ", "l", "a", "n", "g", "u", "a", "g", "e", "-">>
    \o language \o <<"\"", ">">> \o code_ \o <<"<", "/", "c", "o", "d", "e", ">">>

---------------------------------------------------------------------------
(* Diagnostics: a log::error! call is its format string (written without  *)
(* its backquotes) and its arguments.                                     *)

\* An argument of a format string: what it displays.
CharArg(ch) == [kind |-> "char", value |-> ch]
ErrorArg(error) == [kind |-> "error", value |-> error]
\* Display of a Chapter, as the format strings use it.
ChapterDisplay(chapter) == [kind |-> "chapter", value |-> chapter.name]

MissingClosingDiagnostic(chapter) ==
    [format |-> "missing closing character {} in chapter {}",
     args   |-> <<CharArg(LANG_SPEC_END), ChapterDisplay(chapter)>>]

MissingSpaceDiagnostic(chapter) ==
    [format |-> "missing space after language identifier in chapter {}",
     args   |-> <<ChapterDisplay(chapter)>>]

SerializationDiagnostic(error) ==
    [format |-> "Markdown serialization failed: {}",
     args   |-> <<ErrorArg(error)>>]

---------------------------------------------------------------------------
(* parse_inline_code *)

\* What parse_inline_code hands back: the tuple and the diagnostics it logged.
Returns(c, is_html, diagnostics) ==
    [c |-> c, is_html |-> is_html, log |-> diagnostics]

\* `if let Some(l) = default_language { (inline_with_highlighting(text, l), true) }
\*  else { (text, false) }`, at the three places it is written.
WithDefaultAlwaysPlain(text, default, diagnostics) ==
    Returns(text, FALSE, diagnostics)

WithDefault(text, default, diagnostics) ==
    IF default # None
    THEN Returns(inline_with_highlighting(text, default[1]), TRUE, diagnostics)
    ELSE Returns(text, FALSE, diagnostics)

\* `let result = if ch == ESCAPE_CHAR { chars.as_str() } else { code }`
UntaggedBodyKeepEscape(code_) == code_

UntaggedBodyStripFirst(code_) == Tail(code_)

UntaggedBody(code_) ==
    IF Head(code_) = ESCAPE_CHAR THEN Tail(code_) ELSE code_

\* The loop collecting `lang`: i is the position chars.next() reads next.
RECURSIVE ScanLang(_, _, _)
ScanLang(code_, i, lang) ==
    IF i > Len(code_)
    THEN [closed |-> FALSE, lang |-> lang, next |-> i]
    ELSE IF code_[i] = LANG_SPEC_END
    THEN [closed |-> TRUE, lang |-> lang, next |-> i + 1]
    ELSE ScanLang(code_, i + 1, Append(lang, code_[i]))

\* `let language = if lang == "none" { default_language } else { Some(&lang) }`
RequestedLanguageNoSentinel(lang, default) == Some(lang)

RequestedLanguageDefaultFirst(lang, default) ==
    IF default # None THEN default ELSE Some(lang)

RequestedLanguage(lang, default) ==
    IF lang = NoneLiteral THEN default ELSE Some(lang)

\* `chars.next().is_none_or(|ch| ch != ' ')`, chars standing at position i
SeparatorMissingOnlyAtEnd(code_, i) == i > Len(code_)

SeparatorMissing(code_, i) ==
    i > Len(code_) \/ code_[i] # " "

\* `match language { Some(l) => (inline_with_highlighting(actual_code, l), true),
\*                   None => (actual_code.to_string(), false) }`
Tagged(actual_code, language) ==
    IF language # None
    THEN Returns(inline_with_highlighting(actual_code, language[1]), TRUE, <<>>)
    ELSE Returns(actual_code, FALSE, <<>>)

parse_inline_code(code_, default, chapter) ==
    IF code_ = <<>>
    THEN Returns(<<>>, FALSE, <<>>)
    ELSE IF Head(code_) # LANG_SPEC_START
    THEN WithDefault(UntaggedBody(code_), default, <<>>)
    ELSE LET scan == ScanLang(code_, 2, <<>>) IN
         IF ~scan.closed
         THEN WithDefault(code_, default, <<MissingClosingDiagnostic(chapter)>>)
         ELSE LET language == RequestedLanguage(scan.lang, default) IN
              IF SeparatorMissing(code_, scan.next)
              THEN WithDefault(code_, default, <<MissingSpaceDiagnostic(chapter)>>)
              ELSE Tagged(SubSeq(code_, scan.next + 1, Len(code_)), language)

---------------------------------------------------------------------------
(* Inputs of the classifier specification *)

Alphabet == {LANG_SPEC_START, LANG_SPEC_END, ESCAPE_CHAR, " ", "e", "x"}

Strings(n) == UNION {[1..k -> Alphabet] : k \in 0..n}

\* Openings that put the "none" literal, and near misses of it, within reach
\* of a short tail.
SpanPrefixes ==
    { <<>>,
      <<"[", "n", "o", "n", "e">>,
      <<"[", "n", "o", "n">>,
      <<"\\", "[", "n", "o", "n", "e">> }

Spans == {p \o t : p \in SpanPrefixes, t \in Strings(MaxLen)}

Defaults == {None, Some(<<"j", "s">>), Some(NoneLiteral), Some(<<"x">>)}

\* Chapter::default(), as the unit tests pass it
DefaultChapter == [name |-> ""]

NoBook == <<>>

Init ==
    /\ default_language \in Defaults
    /\ code \in Spans
    /\ outcome = None
    /\ pc = "call"
    /\ book = NoBook /\ book_in = NoBook /\ item = 0
    /\ parsed = <<>> /\ events = <<>> /\ log = <<>>
    /\ cmark_result = <<>> /\ returned = None

Classify ==
    /\ pc = "call"
    /\ LET r == parse_inline_code(code, default_language, DefaultChapter) IN
         /\ outcome' = Some(<<r.c, r.is_html>>)
         /\ log' = log \o r.log
    /\ pc' = "returned"
    /\ UNCHANGED <<default_language, code, book, book_in, item, parsed, events,
                   cmark_result, returned>>

Next == Classify

Spec == Init /\ [][Next]_vars

---------------------------------------------------------------------------
(* Configuration::from_mdbook_config *)

\* What the configuration holds under
\* "preprocessor.inline-highlighting.default-language": nothing, a string, or
\* a value of another type.
Absent == [is |-> "absent"]
StringValue(s) == [is |-> "string", value |-> s]
OtherValue == [is |-> "other"]

\* cfg.get::<String>(key).ok().flatten(): a missing key is Ok(None), a value
\* of another type is Err, and both end as None.
from_mdbook_config(cfg) ==
    IF cfg.is = "string" THEN Some(cfg.value) ELSE None

---------------------------------------------------------------------------
(* InlineHighlighterPreprocessor::run *)

\* Events of pulldown_cmark, by their kind and their text.
CodeEvent(text) == [tag |-> "Code", text |-> text]
HtmlEvent(text) == [tag |-> "Html", text |-> text]
TextEvent(text) == [tag |-> "Text", text |-> text]

\* The body of the `for event in parser` loop: the event pushed for `event`.
RewriteEventCodeOnly(event, default, chapter) ==
    IF event.tag = "Code"
    THEN CodeEvent(parse_inline_code(event.text, default, chapter).c)
    ELSE event

RewriteEvent(event, default, chapter) ==
    IF event.tag = "Code"
    THEN LET r == parse_inline_code(event.text, default, chapter) IN
         IF r.is_html THEN HtmlEvent(r.c) ELSE CodeEvent(r.c)
    ELSE event

\* The diagnostics the loop body logs for `event`.
RewriteLog(event, default, chapter) ==
    IF event.tag = "Code"
    THEN parse_inline_code(event.text, default, chapter).log
    ELSE <<>>

\* A chapter's content: the markdown it held when the book came in, or the
\* markdown cmark wrote for a vector of events.
SourceContent(i) == [form |-> "source", of |-> i]
CmarkContent(evs) == [form |-> "cmark", events |-> evs]

\* `Ok(result) => chapter.content = result`
StoreResult(b, i, evs) ==
    [b EXCEPT ![i].content = CmarkContent(evs)]

\* `Err(error) => log::error!(...)`: the content is not assigned.
StoreFailureClears(b, i) ==
    [b EXCEPT ![i].content = CmarkContent(<<>>)]

StoreFailure(b, i) == b

\* BookItem::Chapter, and the items that are not chapters.
ChapterItem(i) == [kind |-> "Chapter", name |-> <<"chapter", i>>, content |-> SourceContent(i)]
SeparatorItem == [kind |-> "Separator"]

Books ==
    UNION { { b \in [1..n -> {"Chapter", "Separator"}] : TRUE } : n \in 0..MaxItems }

BookOf(kinds) ==
    [i \in 1..Len(kinds) |-> IF kinds[i] = "Chapter" THEN ChapterItem(i) ELSE SeparatorItem]

\* The events the parser may yield.
ParserEvents ==
    { TextEvent(<<"x">>),
      CodeEvent(<<"[", "x">>),
      CodeEvent(<<"[", "x", "]", " ", "x">>) }

Configs == {Absent, OtherValue, StringValue(<<"j", "s">>)}

RunInit ==
    /\ default_language \in {from_mdbook_config(cfg) : cfg \in Configs}
    /\ book_in \in {BookOf(kinds) : kinds \in Books}
    /\ book = book_in
    /\ item = 0
    /\ pc = "walk"
    /\ parsed = <<>> /\ events = <<>> /\ log = <<>>
    /\ cmark_result = <<>> /\ returned = None
    /\ code = <<>> /\ outcome = None

\* for_each_mut reaches an item that is a chapter: the parser and the vector
\* are created.
VisitChapter ==
    /\ pc = "walk"
    /\ item < Len(book)
    /\ book[item + 1].kind = "Chapter"
    /\ item' = item + 1
    /\ pc' = "parse"
    /\ parsed' = <<>> /\ events' = <<>>
    /\ UNCHANGED <<default_language, code, outcome, book, book_in, log,
                   cmark_result, returned>>

\* for_each_mut reaches an item that is no chapter.
SkipItem ==
    /\ pc = "walk"
    /\ item < Len(book)
    /\ book[item + 1].kind # "Chapter"
    /\ item' = item + 1
    /\ cmark_result' = Append(cmark_result, None)
    /\ UNCHANGED <<default_language, code, outcome, book, book_in, pc, parsed,
                   events, log, returned>>

\* One turn of `for event in parser`.
ParserEvent ==
    /\ pc = "parse"
    /\ Len(parsed) < MaxEvents
    /\ \E event \in ParserEvents :
         /\ parsed' = Append(parsed, event)
         /\ events' = Append(events, RewriteEvent(event, default_language, book[item]))
         /\ log' = log \o RewriteLog(event, default_language, book[item])
    /\ UNCHANGED <<default_language, code, outcome, book, book_in, item, pc,
                   cmark_result, returned>>

\* The parser is exhausted and cmark succeeds.
SerializeOk ==
    /\ pc = "parse"
    /\ book' = StoreResult(book, item, events)
    /\ cmark_result' = Append(cmark_result, Some("Ok"))
    /\ pc' = "walk"
    /\ parsed' = <<>> /\ events' = <<>>
    /\ UNCHANGED <<default_language, code, outcome, book_in, item, log, returned>>

\* The parser is exhausted and cmark fails.
SerializeErr ==
    /\ pc = "parse"
    /\ book' = StoreFailure(book, item)
    /\ log' = Append(log, SerializationDiagnostic("error"))
    /\ cmark_result' = Append(cmark_result, Some("Err"))
    /\ pc' = "walk"
    /\ parsed' = <<>> /\ events' = <<>>
    /\ UNCHANGED <<default_language, code, outcome, book_in, item, returned>>

\* `Ok(book)`
Return ==
    /\ pc = "walk"
    /\ item = Len(book)
    /\ returned' = Some([ok |-> TRUE, book |-> book])
    /\ pc' = "done"
    /\ UNCHANGED <<default_language, code, outcome, book, book_in, item, parsed,
                   events, log, cmark_result>>

RunNext ==
    \/ VisitChapter
    \/ SkipItem
    \/ ParserEvent
    \/ SerializeOk
    \/ SerializeErr
    \/ Return

RunSpec == RunInit /\ [][RunNext]_vars

\* run is one synchronous call: it keeps taking steps until it returns.
FairRunSpec == RunInit /\ [][RunNext]_vars /\ WF_vars(RunNext)

---------------------------------------------------------------------------
(* What the claims speak of *)

\* The markup the unit tests expect for a body and a language:
\* <code class="hljs language-LANG">BODY</code>
ExpectedOpen ==
    <<"<", "c", "o", "d", "e", " ", "c", "l", "a", "s", "s", "=", "\"",
      "h", "l", "j", "s", " ">>
ExpectedClassToken(lang) ==
    <<"l", "a", "n", "g", "u", "a", "g", "e", "-">> \o lang
ExpectedMarkup(body, lang) ==
    ExpectedOpen \o ExpectedClassToken(lang) \o <<"\"", ">">> \o body
    \o <<"<", "/", "c", "o", "d", "e", ">">>

\* The outcome with no tag in force: the body as it is, or wrapped with the default.
NoTagOutcome(body, default) ==
    IF default = None
    THEN Some(<<body, FALSE>>)
    ELSE Some(<<ExpectedMarkup(body, default[1]), TRUE>>)

IsPrefix(p, s) == Len(p) <= Len(s) /\ SubSeq(s, 1, Len(p)) = p
Suffixes(s) == {SubSeq(s, k, Len(s)) : k \in 1..(Len(s) + 1)}

\* The positions of the tag-end marker after the first character.
Closings(s) == {i \in 2..Len(s) : s[i] = "]"}
FirstClosing(s) == CHOOSE i \in Closings(s) : \A j \in Closings(s) : i <= j

\* A span that begins with `[` and has no `]`, or no single space right after
\* the first `]`.
Malformed(s) ==
    /\ s # <<>>
    /\ s[1] = "["
    /\ \/ Closings(s) = {}
       \/ LET i == FirstClosing(s) IN i + 1 > Len(s) \/ s[i + 1] # " "

Called == pc = "returned"

\* C1: a span `[tag] body`, the tag without `]` and not "none", comes back as
\* the body wrapped with class language-<tag>, as raw markup, whatever the
\* default language is; the tag ends at the first `]` and the body starts
\* after the one space that follows it.
C1_ExplicitTagOverridesDefault ==
    Called =>
      \A i \in 2..Len(code) :
        LET tag  == SubSeq(code, 2, i - 1)
            body == SubSeq(code, i + 2, Len(code))
        IN  ( /\ code[1] = "["
              /\ code[i] = "]"
              /\ \A j \in 2..(i - 1) : code[j] # "]"
              /\ tag # <<"n", "o", "n", "e">>
              /\ i + 1 <= Len(code)
              /\ code[i + 1] = " " )
            => outcome = Some(<<ExpectedMarkup(body, tag), TRUE>>)

C1_Witness ==
    /\ Called
    /\ default_language = Some(<<"j", "s">>)
    /\ code = <<"[", "n", "o", "n", "]", " ", " ", "x">>
    /\ outcome = Some(<<ExpectedMarkup(<<" ", "x">>, <<"n", "o", "n">>), TRUE>>)

\* C2: a span `[none] body` comes back as if no language had been asked for:
\* the body unchanged as plain code with no default, the body wrapped with
\* the default as raw markup otherwise.
C2_NoneFallsBackToDefault ==
    (Called /\ IsPrefix(<<"[", "n", "o", "n", "e", "]", " ">>, code)) =>
      outcome = NoTagOutcome(SubSeq(code, 8, Len(code)), default_language)

C2_Witness ==
    /\ Called
    /\ default_language = Some(<<"j", "s">>)
    /\ code = <<"[", "n", "o", "n", "e", "]", " ", "x">>
    /\ outcome = Some(<<ExpectedMarkup(<<"x">>, <<"j", "s">>), TRUE>>)

\* C3: a malformed span (unterminated tag, or no single space after the
\* first `]`) always gets an outcome, and it is the whole original span text
\* with no tag in force; the tag read so far is never the language.
C3_MalformedFallsBackToWholeSpan ==
    (Called /\ Malformed(code)) =>
      outcome = NoTagOutcome(code, default_language)

C3_Witness ==
    /\ Called
    /\ default_language = Some(<<"j", "s">>)
    /\ code = <<"[", "n", "o", "n", "e", "]", "x">>
    /\ outcome = Some(<<ExpectedMarkup(code, <<"j", "s">>), TRUE>>)
    /\ Len(log) = 1

\* C4 as stated: every span whose first character is not `[`, with no
\* default language, comes back unchanged as plain code.
C4_Original ==
    (Called /\ default_language = None /\ (code = <<>> \/ code[1] # "[")) =>
      outcome = Some(<<code, FALSE>>)

\* C4 amended: every span whose first character is neither `[` nor the
\* escape marker `\`, with no default language, comes back unchanged as
\* plain code.
C4_Amended ==
    (Called /\ default_language = None
            /\ (code = <<>> \/ code[1] \notin {"[", "\\"})) =>
      outcome = Some(<<code, FALSE>>)

C4_Witness ==
    /\ Called
    /\ default_language = None
    /\ code = <<"x", "]", " ", "[">>
    /\ outcome = Some(<<code, FALSE>>)

\* C5 as stated: every span that does not begin with `[`, with default
\* language D, comes back wrapped with class D as raw markup.
C5_Original ==
    (Called /\ default_language # None /\ (code = <<>> \/ code[1] # "[")) =>
      outcome = Some(<<ExpectedMarkup(code, default_language[1]), TRUE>>)

\* C5 amended: every non-empty span whose first character is neither `[`
\* nor the escape marker `\`, with default language D, comes back wrapped
\* with class D as raw markup.
C5_Amended ==
    (Called /\ default_language # None
            /\ code # <<>> /\ code[1] \notin {"[", "\\"}) =>
      outcome = Some(<<ExpectedMarkup(code, default_language[1]), TRUE>>)

C5_Witness ==
    /\ Called
    /\ default_language = Some(<<"j", "s">>)
    /\ code = <<"x", "]", " ", "[">>
    /\ outcome = Some(<<ExpectedMarkup(code, <<"j", "s">>), TRUE>>)

\* C6: a span `\` X loses exactly that one escape marker and X is body text
\* with no tag in force, whatever X holds: X is not parsed for a tag and no
\* other escape marker is removed.
C6_EscapeStripsOneMarker ==
    (Called /\ code # <<>> /\ code[1] = "\\") =>
      outcome = NoTagOutcome(Tail(code), default_language)

C6_Witness ==
    /\ Called
    /\ default_language = None
    /\ code = <<"\\", "[", "n", "o", "n", "e", "]", " ", "\\">>
    /\ outcome = Some(<<<<"[", "n", "o", "n", "e", "]", " ", "\\">>, FALSE>>)

WrapperLanguages ==
    {default_language[k] : k \in 1..Len(default_language)}
    \cup {SubSeq(code, 2, i) : i \in 1..Len(code)}

\* C10: the outcome is plain code only if there is no default language or
\* the span is empty, and the body put out (the plain text, or what stands
\* between the wrapper's opening and closing tags) is a suffix of the span.
C10_PlainOnlyWithoutDefault_BodyIsSuffix ==
    Called =>
      LET text    == outcome[1][1]
          is_html == outcome[1][2]
      IN  /\ ~is_html => (default_language = None \/ code = <<>>)
          /\ IF is_html
             THEN \E body \in Suffixes(code), lang \in WrapperLanguages :
                     text = ExpectedMarkup(body, lang)
             ELSE text \in Suffixes(code)

C10_Witness ==
    /\ Called
    /\ default_language = Some(<<"j", "s">>)
    /\ code = <<"[", "n", "o", "n", "e", "]", " ", "x", "]">>
    /\ outcome = Some(<<ExpectedMarkup(<<"x", "]">>, <<"j", "s">>), TRUE>>)

\* C7: while a chapter's events are rewritten, the vector is as long as the
\* events read, every event that is no inline code stands unchanged at its
\* place, and every inline-code event is replaced at its place by one event:
\* a code event with the classifier's text for plain code, an Html event
\* with the classifier's text for raw markup.
C7_RewriteKeepsOtherEvents ==
    pc = "parse" =>
      /\ Len(events) = Len(parsed)
      /\ \A i \in 1..Len(parsed) :
           IF parsed[i].tag # "Code"
           THEN events[i] = parsed[i]
           ELSE LET r == parse_inline_code(parsed[i].text, default_language, book[item])
                IN  events[i] = [tag  |-> IF r.is_html THEN "Html" ELSE "Code",
                                 text |-> r.c]

C7_Witness ==
    /\ pc = "parse"
    /\ default_language = None
    /\ Len(parsed) = MaxEvents
    /\ parsed[1] = TextEvent(<<"x">>)
    /\ parsed[2] = CodeEvent(<<"[", "x", "]", " ", "x">>)
    /\ events[1] = parsed[1]
    /\ events[2] = HtmlEvent(ExpectedMarkup(<<"x">>, <<"x">>))

SerializationFailures ==
    {i \in 1..Len(cmark_result) : cmark_result[i] = Some("Err")}
SerializationDiagnostics ==
    {k \in 1..Len(log) : log[k].format = "Markdown serialization failed: {}"}

RunOutcome ==
    /\ returned = Some([ok |-> TRUE, book |-> book])
    /\ Len(cmark_result) = Len(book)
    /\ Len(book) = Len(book_in)
    /\ Cardinality(SerializationDiagnostics) = Cardinality(SerializationFailures)
    /\ \A i \in 1..Len(book) :
         /\ book_in[i].kind # "Chapter" => book[i] = book_in[i]
         /\ book_in[i].kind = "Chapter" =>
              /\ cmark_result[i] \in {Some("Ok"), Some("Err")}
              /\ cmark_result[i] = Some("Err") => book[i] = book_in[i]
              /\ cmark_result[i] = Some("Ok") =>
                   /\ book[i].content.form = "cmark"
                   /\ book[i].name = book_in[i].name

\* C8: a chapter whose serialization fails keeps the content it came in
\* with and a diagnostic is logged; every other chapter is still visited and
\* gets the content cmark wrote; and the run ends, returning the book as Ok.
C8_FailedUnitUnchanged_RunFinishes ==
    /\ [](pc # "done" => returned = None)
    /\ [](pc = "done" => RunOutcome)
    /\ <>(pc = "done")

C8_Witness ==
    /\ pc = "done"
    /\ Len(book) = MaxItems
    /\ cmark_result[1] = Some("Err")
    /\ cmark_result[MaxItems] = Some("Ok")
    /\ book[1] = book_in[1]
    /\ book[MaxItems].content.form = "cmark"
    /\ book[MaxItems].content.events # <<>>

NamesChapter(diagnostic, chapter) ==
    \E a \in 1..Len(diagnostic.args) :
       /\ diagnostic.args[a].kind = "chapter"
       /\ diagnostic.args[a].value = chapter.name

\* C9: every diagnostic logged during a run names the chapter in which it
\* was raised.
C9_EveryDiagnosticNamesChapter ==
    [][\A k \in (Len(log) + 1)..Len(log') : NamesChapter(log'[k], book[item])]_vars

===========================================================================
